---- MODULE Spec2Model ----
(***************************************************************************)
(* Model of app.py, the Legal Document Analyzer: the text functions        *)
(* (clean_text, summarize_text, extract_key_clauses, detect_hidden_risks), *)
(* the regulatory correlator, the completion-endpoint client and the       *)
(* analysis pass of main.                                                  *)
(*                                                                         *)
(* A Python str is modelled as a sequence of one-character strings.  The   *)
(* sentence segmenter (spaCy) is an external collaborator: a document's    *)
(* sentences are one of the partitions of its whitespace-separated chunks  *)
(* into consecutive groups, fixed per document.                            *)
(***************************************************************************)
EXTENDS Integers, Sequences, FiniteSets, TLC

\* ------------------------------------------------------------------ bounds
\* Number of pieces a summarizer input text is built from.
MaxPieces == 5
\* Largest num_sentences passed to summarize_text.
MaxNum == 3
\* Number of words a classifier input text is built from.
MaxWords == 3
\* Number of records in a regulatory feed.
MaxFeed == 2
\* Length of a completion's content.
MaxContent == 3

\* ------------------------------------------------------------- characters
SpaceChars == {" ", "\n", "\t"}
DigitChars == {"0", "1", "2", "3", "4", "5", "6", "7", "8", "9"}
UpperSeq == <<"A","B","C","D","E","F","G","H","I","J","K","L","M",
              "N","O","P","Q","R","S","T","U","V","W","X","Y","Z">>
LowerSeq == <<"a","b","c","d","e","f","g","h","i","j","k","l","m",
              "n","o","p","q","r","s","t","u","v","w","x","y","z">>
UpperChars == {UpperSeq[i] : i \in 1..26}
LowerChars == {LowerSeq[i] : i \in 1..26}
AlphaChars == UpperChars \cup LowerChars

\* str.lower() on one character.
LowerOf == [c \in UpperChars |-> LowerSeq[CHOOSE i \in 1..26 : UpperSeq[i] = c]]
LowerChar(c) == IF c \in UpperChars THEN LowerOf[c] ELSE c

\* str.lower()
Lower(s) == [i \in 1..Len(s) |-> LowerChar(s[i])]

\* str.strip(): drop leading and trailing whitespace.
RECURSIVE LStrip(_)
LStrip(s) ==
    IF s # <<>> /\ Head(s) \in SpaceChars THEN LStrip(Tail(s)) ELSE s

RECURSIVE RStrip(_)
RStrip(s) ==
    IF s # <<>> /\ s[Len(s)] \in SpaceChars
    THEN RStrip(SubSeq(s, 1, Len(s) - 1))
    ELSE s

Strip(s) == LStrip(RStrip(s))

\* Python's `needle in haystack` on strings.
IsSubstring(needle, hay) ==
    \E i \in 0..(Len(hay) - Len(needle)) :
        \A k \in 1..Len(needle) : hay[i + k] = needle[k]

\* sep.join(parts)
RECURSIVE Join(_, _)
Join(parts, sep) ==
    IF parts = <<>> THEN <<>>
    ELSE IF Len(parts) = 1 THEN parts[1]
    ELSE parts[1] \o sep \o Join(Tail(parts), sep)

\* Concatenation of a sequence of strings.
RECURSIVE Concat(_)
Concat(parts) ==
    IF parts = <<>> THEN <<>> ELSE Head(parts) \o Concat(Tail(parts))

\* All sequences over S of length at most n.
SeqsUpTo(S, n) == UNION {[1..m -> S] : m \in 0..n}

\* --------------------------------------------------------------- segmenter
\* End of the run of characters satisfying "not whitespace" that starts at i.
RECURSIVE ChunkEnd(_, _)
ChunkEnd(s, i) ==
    IF i < Len(s) /\ s[i + 1] \notin SpaceChars THEN ChunkEnd(s, i + 1) ELSE i

\* The whitespace-separated chunks of s from position i on, as [lo, hi] spans.
RECURSIVE ChunksFrom(_, _)
ChunksFrom(s, i) ==
    IF i > Len(s) THEN <<>>
    ELSE IF s[i] \in SpaceChars THEN ChunksFrom(s, i + 1)
    ELSE LET e == ChunkEnd(s, i)
         IN  <<[lo |-> i, hi |-> e]>> \o ChunksFrom(s, e + 1)

Chunks(s) == ChunksFrom(s, 1)

\* The sentence boundaries the segmenter may place in a text of n chunks:
\* a set of cut positions, a cut at c ending a sentence after chunk c.
Segmentations(n) == IF n <= 1 THEN {{}} ELSE SUBSET (1..(n - 1))

\* doc.sents: the sentences, in document order, as [first, last] chunk ranges.
RECURSIVE SentsFrom(_, _, _)
SentsFrom(n, cuts, first) ==
    IF first > n THEN <<>>
    ELSE LET later == {c \in cuts : c >= first}
             last == IF later = {} THEN n
                     ELSE CHOOSE c \in later : \A d \in later : c <= d
         IN  <<[first |-> first, last |-> last]>> \o SentsFrom(n, cuts, last + 1)

Sents(s, cuts) == SentsFrom(Len(Chunks(s)), cuts, 1)

\* sent.text / str(sent): the text of sentence i.  Whitespace between two
\* sentences belongs to one of them; here it leads the later one.
SentRaw(s, sents, i) ==
    LET ch == Chunks(s)
        from == IF i = 1 THEN 1 ELSE ch[sents[i - 1].last].hi + 1
    IN  SubSeq(s, from, ch[sents[i].last].hi)

\* The chunk texts (tokens) of a sentence.
SentTokens(s, sent) ==
    LET ch == Chunks(s)
    IN  [j \in 1..(sent.last - sent.first + 1) |->
            SubSeq(s, ch[sent.first + j - 1].lo, ch[sent.first + j - 1].hi)]

\* -------------------------------------------------------------- clean_text
\* End of the run of digits that starts at i.
RECURSIVE DigitsEnd(_, _)
DigitsEnd(s, i) ==
    IF i < Len(s) /\ s[i + 1] \in DigitChars THEN DigitsEnd(s, i + 1) ELSE i

\* End of the longest (\.\d+)* that starts right after position e.
RECURSIVE DottedEnd(_, _)
DottedEnd(s, e) ==
    IF e + 2 <= Len(s) /\ s[e + 1] = "." /\ s[e + 2] \in DigitChars
    THEN DottedEnd(s, DigitsEnd(s, e + 2))
    ELSE e

\* re.sub(r'\d+(\.\d+)+', '', text)
RECURSIVE RemoveSectionNumbers(_, _)
RemoveSectionNumbers(s, i) ==
    IF i > Len(s) THEN <<>>
    ELSE IF s[i] \in DigitChars
    THEN LET d == DigitsEnd(s, i)
             e == DottedEnd(s, d)
         IN  IF e > d THEN RemoveSectionNumbers(s, e + 1)
             ELSE <<s[i]>> \o RemoveSectionNumbers(s, i + 1)
    ELSE <<s[i]>> \o RemoveSectionNumbers(s, i + 1)

\* re.sub(r'\s+', ' ', text)
RECURSIVE CollapseSpaces(_, _)
CollapseSpaces(s, i) ==
    IF i > Len(s) THEN <<>>
    ELSE IF s[i] \in SpaceChars
    THEN IF i > 1 /\ s[i - 1] \in SpaceChars
         THEN CollapseSpaces(s, i + 1)
         ELSE <<" ">> \o CollapseSpaces(s, i + 1)
    ELSE <<s[i]>> \o CollapseSpaces(s, i + 1)

\* re.sub(r'[^a-zA-Z\s]', '', text)
KeepAlphaSpace(s) == SelectSeq(s, LAMBDA c : c \in AlphaChars \cup SpaceChars)

clean_text(text) ==
    Strip(KeepAlphaSpace(CollapseSpaces(RemoveSectionNumbers(text, 1), 1)))

\* ---------------------------------------------------------- summarize_text
\* Lexical attributes of the language model, on the vocabulary of the inputs.
StopWords == {<<"a">>}
NumWords == {<<"t", "e", "n">>}
is_alpha(tok) == tok # <<>> /\ \A i \in 1..Len(tok) : tok[i] \in AlphaChars
is_stop(tok) == Lower(tok) \in StopWords
like_num(tok) ==
    \/ (tok # <<>> /\ \A i \in 1..Len(tok) : tok[i] \in DigitChars)
    \/ Lower(tok) \in NumWords

\* All tokens of the document, in order.
DocTokens(s) ==
    LET ch == Chunks(s) IN [j \in 1..Len(ch) |-> SubSeq(s, ch[j].lo, ch[j].hi)]

\* word_freq: Counter over the lowercased alphabetic, non-stop, non-numeric tokens.
word_freq(s, w) ==
    LET toks == DocTokens(s)
    IN  Cardinality({j \in 1..Len(toks) :
            /\ is_alpha(toks[j]) /\ ~is_stop(toks[j]) /\ ~like_num(toks[j])
            /\ Lower(toks[j]) = w})

RECURSIVE SumFreq(_, _)
SumFreq(s, toks) ==
    IF toks = <<>> THEN 0
    ELSE (IF like_num(Head(toks)) THEN 0 ELSE word_freq(s, Lower(Head(toks))))
         + SumFreq(s, Tail(toks))

\* sent_scores: score of each sentence, indexed by its position in the document.
sent_scores(s, sents) ==
    [i \in 1..Len(sents) |-> SumFreq(s, SentTokens(s, sents[i]))]

\* heapq.nlargest(n, keys, key=score): the n keys of highest score, highest
\* first, equal scores in the order the keys were given.
RECURSIVE nlargest(_, _, _)
nlargest(n, keys, score) ==
    IF n <= 0 \/ keys = <<>> THEN <<>>
    ELSE LET best == CHOOSE i \in 1..Len(keys) :
                        /\ \A j \in 1..Len(keys) : score[keys[j]] <= score[keys[i]]
                        /\ \A j \in 1..(i - 1) : score[keys[j]] < score[keys[i]]
             rest == [j \in 1..(Len(keys) - 1) |->
                         IF j < best THEN keys[j] ELSE keys[j + 1]]
         IN  <<keys[best]>> \o nlargest(n - 1, rest, score)

\* top_sentences: positions (in the cleaned document) of the selected sentences,
\* in the order they are joined.
top_sentences(text, cuts, num_sentences) ==
    LET s == clean_text(text)
        sents == Sents(s, cuts)
    IN  nlargest(num_sentences, [i \in 1..Len(sents) |-> i], sent_scores(s, sents))

summarize_text(text, cuts, num_sentences) ==
    LET s == clean_text(text)
        sents == Sents(s, cuts)
        top == top_sentences(text, cuts, num_sentences)
    IN  Join([i \in 1..Len(top) |-> Strip(SentRaw(s, sents, top[i]))], <<".", " ">>)
        \o <<".">>

\* ------------------------------------- extract_key_clauses, detect_hidden_risks
indicators ==
    <<<<"s", "h", "a", "l", "l">>,
      <<"m", "u", "s", "t">>,
      <<"o", "b", "l", "i", "g", "e", "d", " ", "t", "o">>,
      <<"r", "e", "q", "u", "i", "r", "e", "d", " ", "t", "o">>,
      <<"r", "e", "s", "p", "o", "n", "s", "i", "b", "l", "e", " ", "f", "o", "r">>,
      <<"l", "i", "a", "b", "l", "e", " ", "f", "o", "r">>,
      <<"w", "a", "r", "r", "a", "n", "t">>,
      <<"g", "u", "a", "r", "a", "n", "t", "e", "e">>>>

risk_indicators ==
    <<<<"d", "e", "p", "e", "n", "d", "e", "n", "c", "y">>,
      <<"c", "o", "n", "t", "i", "n", "g", "e", "n", "c", "y">>,
      <<"s", "u", "b", "j", "e", "c", "t", " ", "t", "o">>,
      <<"p", "r", "o", "v", "i", "d", "e", "d", " ", "t", "h", "a", "t">>,
      <<"u", "n", "l", "e", "s", "s">>,
      <<"i", "n", " ", "t", "h", "e", " ", "e", "v", "e", "n", "t", " ", "o", "f">>,
      <<"w", "i", "t", "h", "o", "u", "t", " ", "p", "r", "e", "j", "u", "d", "i", "c", "e">>,
      <<"u", "n", "d", "e", "r", " ", "n", "o", " ", "c", "i", "r", "c", "u", "m", "s", "t", "a", "n", "c", "e", "s">>,
      <<"n", "o", "t", "w", "i", "t", "h", "s", "t", "a", "n", "d", "i", "n", "g">>,
      <<"i", "n", " ", "t", "h", "e", " ", "c", "a", "s", "e", " ", "o", "f">>,
      <<"e", "x", "c", "e", "p", "t", " ", "a", "s", " ", "o", "t", "h", "e", "r", "w", "i", "s", "e">>,
      <<"l", "i", "m", "i", "t", "e", "d", " ", "t", "o">>,
      <<"m", "a", "y", " ", "b", "e">>,
      <<"s", "h", "a", "l", "l", " ", "n", "o", "t">>,
      <<"i", "n", " ", "a", "c", "c", "o", "r", "d", "a", "n", "c", "e", " ", "w", "i", "t", "h">>,
      <<"a", "t", " ", "t", "h", "e", " ", "d", "i", "s", "c", "r", "e", "t", "i", "o", "n", " ", "o", "f">>,
      <<"c", "o", "n", "d", "i", "t", "i", "o", "n", "a", "l", " ", "u", "p", "o", "n">>,
      <<"e", "x", "c", "l", "u", "s", "i", "v", "e", " ", "o", "f">>,
      <<"w", "i", "t", "h", "o", "u", "t", " ", "l", "i", "m", "i", "t", "a", "t", "i", "o", "n">>,
      <<"s", "u", "b", "j", "e", "c", "t", " ", "t", "o", " ", "c", "h", "a", "n", "g", "e">>,
      <<"b", "i", "n", "d", "i", "n", "g", " ", "u", "p", "o", "n">>,
      <<"l", "i", "a", "b", "l", "e", " ", "f", "o", "r">>,
      <<"f", "o", "r", "c", "e", " ", "m", "a", "j", "e", "u", "r", "e">>,
      <<"t", "o", " ", "t", "h", "e", " ", "e", "x", "t", "e", "n", "t", " ", "p", "e", "r", "m", "i", "t", "t", "e", "d", " ", "b", "y", " ", "l", "a", "w">>>>

\* any(p in sent.text.lower() for p in lexicon)
MatchesAny(lexicon, sentText) ==
    LET lowered == Lower(sentText)
    IN  \E k \in 1..Len(lexicon) : IsSubstring(lexicon[k], lowered)

\* The loop over nlp(text).sents: the stripped texts of the matching sentences.
RECURSIVE MatchingFrom(_, _, _, _)
MatchingFrom(lexicon, s, sents, i) ==
    IF i > Len(sents) THEN <<>>
    ELSE (IF MatchesAny(lexicon, SentRaw(s, sents, i))
          THEN <<Strip(SentRaw(s, sents, i))>> ELSE <<>>)
         \o MatchingFrom(lexicon, s, sents, i + 1)

\* The list as collected, repeated texts kept.
unsorted_list(l) == l

\* sorted(set(l), key=l.index): the distinct elements of l, each at the rank
\* of its first occurrence.
sorted_set_by_index(l) ==
    LET idx == SelectSeq([i \in 1..Len(l) |-> i],
                         LAMBDA i : \A j \in 1..(i - 1) : l[j] # l[i])
    IN  [k \in 1..Len(idx) |-> l[idx[k]]]

extract_key_clauses(text, cuts) ==
    sorted_set_by_index(MatchingFrom(indicators, text, Sents(text, cuts), 1))

detect_hidden_risks(text, cuts) ==
    sorted_set_by_index(MatchingFrom(risk_indicators, text, Sents(text, cuts), 1))

\* ------------------------------------------------- track_regulatory_updates
\* A JSON value of a record field: absent from the dict ("missing"), a string
\* ("str", with its text), or any value that is no string ("nonstr": null, a
\* number, a list, ...).
Missing == [kind |-> "missing", val |-> <<>>]
NonStr == [kind |-> "nonstr", val |-> <<>>]
Str(v) == [kind |-> "str", val |-> v]

\* An entry of the regulatory_updates array that is no dict.
NonDict == [isdict |-> FALSE, section |-> Missing, sub_section |-> Missing,
            update |-> Missing]
Dict(sec, sub, upd) == [isdict |-> TRUE, section |-> sec, sub_section |-> sub,
                        update |-> upd]

\* update.get(key, ""): the default stands in for an absent key only.
Get(field) == IF field.kind = "missing" THEN Str(<<>>) ELSE field

\* f"Section: {section} Sub-Section: {sub_section} Update: {update_text}"
FormatAffected(section, sub_section, update_text) ==
    <<"S", "e", "c", "t", "i", "o", "n", ":", " ">> \o section
    \o <<" ", "S", "u", "b", "-", "S", "e", "c", "t", "i", "o", "n", ":", " ">>
    \o sub_section
    \o <<" ", "U", "p", "d", "a", "t", "e", ":", " ">> \o update_text

\* One pass of the loop body on `update`: "skip" (no dict, or no match),
\* "append" with the entry, or "raise" (.lower() on a value that is no str;
\* `and` does not evaluate sub_section.lower() when the section is not found).
TrackOne(text, update) ==
    IF ~update.isdict THEN [kind |-> "skip", entry |-> <<>>]
    ELSE LET section == Get(update.section)
             sub_section == Get(update.sub_section)
             upd == Get(update.update)
         IN  IF upd.kind # "str" \/ section.kind # "str"
             THEN [kind |-> "raise", entry |-> <<>>]
             ELSE IF ~IsSubstring(Lower(section.val), Lower(text))
             THEN [kind |-> "skip", entry |-> <<>>]
             ELSE IF sub_section.kind # "str"
             THEN [kind |-> "raise", entry |-> <<>>]
             ELSE IF IsSubstring(Lower(sub_section.val), Lower(text))
             THEN [kind |-> "append",
                   entry |-> FormatAffected(section.val, sub_section.val,
                                            Lower(upd.val))]
             ELSE [kind |-> "skip", entry |-> <<>>]

\* The loop over the records, from record i on, with the entries so far.
RECURSIVE TrackLoop(_, _, _, _)
TrackLoop(text, records, i, affected_sections) ==
    IF i > Len(records)
    THEN [raised |-> FALSE, value |-> affected_sections]
    ELSE LET r == TrackOne(text, records[i])
         IN  IF r.kind = "raise" THEN [raised |-> TRUE, value |-> <<>>]
             ELSE TrackLoop(text, records, i + 1,
                            IF r.kind = "append"
                            THEN Append(affected_sections, r.entry)
                            ELSE affected_sections)

\* The JSON body of the feed: its kind ("dict", "list", "other": a string, a
\* number, null), whether it is truthy, and for a dict the value under
\* "regulatory_updates": "absent", a "list" of records, or "other" (a value
\* that cannot be iterated: null, a number).
FeedDict(truthy, ru, records) ==
    [kind |-> "dict", truthy |-> truthy, ru |-> ru, records |-> records]
FeedOther(kind, truthy) ==
    [kind |-> kind, truthy |-> truthy, ru |-> "absent", records |-> <<>>]

\* updates.get("regulatory_updates", []) and the loop over it.
track_regulatory_updates(text, updates) ==
    IF updates.kind # "dict" THEN [raised |-> TRUE, value |-> <<>>]
    ELSE IF updates.ru = "other" THEN [raised |-> TRUE, value |-> <<>>]
    ELSE IF updates.ru = "list" THEN TrackLoop(text, updates.records, 1, <<>>)
    ELSE [raised |-> FALSE, value |-> <<>>]

\* ------------------------------------------------ get_answer_from_groq_api
\* The completion endpoint's reply: a transport error raised by requests.post,
\* or a status with a body.  A 200 body is no JSON ("not_json"), JSON without
\* the path choices[0].message.content ("no_choices", "empty_choices",
\* "no_message", "no_content"), JSON whose content is no string
\* ("nonstr_content"), or well-formed ("ok", with the content).
TransportError == [transport_error |-> TRUE, status_code |-> 0, shape |-> "ok",
                   content |-> <<>>]
Response(status, shape, content) ==
    [transport_error |-> FALSE, status_code |-> status, shape |-> shape,
     content |-> content]

Return(v, reported) == [kind |-> "return", value |-> v, reported |-> reported,
                        exc |-> "none"]
Raise(exc) == [kind |-> "raise", value |-> <<>>, reported |-> FALSE, exc |-> exc]

\* The body of the try statement.
GroqTry(response) ==
    IF response.transport_error THEN Raise("ConnectionError")
    ELSE IF response.status_code = 200
    THEN CASE response.shape = "not_json" -> Raise("JSONDecodeError")
           [] response.shape = "no_choices" -> Raise("KeyError")
           [] response.shape = "empty_choices" -> Raise("IndexError")
           [] response.shape = "no_message" -> Raise("KeyError")
           [] response.shape = "no_content" -> Raise("KeyError")
           [] response.shape = "nonstr_content" -> Raise("AttributeError")
           [] OTHER -> Return(Strip(response.content), FALSE)
    ELSE Return(<<>>, TRUE)

\* A handler that catches the transport errors of requests only.
GroqExceptTransportOnly(outcome) ==
    IF outcome.kind = "raise" /\ outcome.exc = "ConnectionError"
    THEN Return(<<>>, TRUE) ELSE outcome

\* except Exception as e: st.error(...); return ""
GroqExcept(outcome) ==
    IF outcome.kind = "raise" THEN Return(<<>>, TRUE) ELSE outcome

get_answer_from_groq_api(response) == GroqExcept(GroqTry(response))

\* ------------------------------------------------ fetch_regulatory_updates
\* What requests.get does: raises ("transport_error"), or answers with a
\* status and a body that is no JSON ("not_json") or a JSON value (`feed`).
FetchTransportError ==
    [kind |-> "transport_error", status_code |-> 0, json |-> FALSE,
     feed |-> FeedOther("list", FALSE)]
FetchResponse(status, json, feed) ==
    [kind |-> "response", status_code |-> status, json |-> json, feed |-> feed]

\* The value returned, and whether st.error was called.  response.json()
\* raising is caught by the function's own except clause.
fetch_regulatory_updates(outcome) ==
    IF outcome.kind = "transport_error"
    THEN [value |-> FeedOther("list", FALSE), reported |-> TRUE]
    ELSE IF outcome.status_code = 200
    THEN IF outcome.json
         THEN [value |-> outcome.feed, reported |-> FALSE]
         ELSE [value |-> FeedOther("list", FALSE), reported |-> TRUE]
    ELSE [value |-> FeedOther("list", FALSE), reported |-> TRUE]

\* -------------------------------------------------------------- create_pdf
ReportPdf == "analysis_report.pdf"
ClausesChart == "key_clauses_vs_risks.png"
WordFreqChart == "word_frequency.png"

\* visualization_files: the chart images create_pdf saves.
visualization_files(summary, key_clauses, risks) ==
    (IF key_clauses # <<>> /\ risks # <<>> THEN {ClausesChart} ELSE {})
    \cup (IF summary # <<>> THEN {WordFreqChart} ELSE {})

\* The loop over visualization_files, run to its end: os.remove(img_file).
RemoveCharts(files, charts) == files \ charts

\* -------------------------------------------------------------------- main
\* summarize_text's default num_sentences.
DefaultNumSentences == 5

Options == {"Summarize", "Extract Key Clauses", "Risk Detection",
            "Regulatory Updates", "Question Answering", "Visualizations", "All"}

\* An entry of the record of collaborator calls: what was called and whether
\* the call returned or raised.
Call(name, result) == [call |-> name, result |-> result]

\* An except clause that leaves the branch without the finally block.
AfterRejectedNoFinally == "end"
\* except EmailNotValidError: ... finally: the branch goes on to the finally block.
AfterRejected == "finally"

\* ------------------------------------------------------------------- state
VARIABLES
    sm_pc,        \* summarizer call: "input" before, "done" after
    sm_text,      \* text argument
    sm_cuts,      \* the segmenter's sentence boundaries in clean_text(text)
    sm_num,       \* num_sentences argument
    sm_top,       \* top_sentences
    sm_summary,   \* the returned string
    cl_text,      \* classifier document
    cl_cuts,      \* the segmenter's sentence boundaries in the document
    cl_clauses,   \* last result of extract_key_clauses
    cl_risk_phrases,    \* last result of detect_hidden_risks
    cl_prev_clauses,    \* result of the call of extract_key_clauses before
    cl_prev_risk_phrases, \* result of the call of detect_hidden_risks before
    cl_extract_calls,   \* calls of extract_key_clauses so far: 0, 1, 2 for more
    cl_detect_calls,    \* calls of detect_hidden_risks so far: 0, 1, 2 for more
    tr_pc,        \* correlator call: "input", "returned" or "raised"
    tr_text,      \* text argument
    tr_updates,   \* updates argument
    tr_affected,  \* the returned affected_sections
    gq_pc,        \* completion call: "input", "returned" or "raised"
    gq_response,  \* what the endpoint does
    gq_answer,    \* the returned string
    gq_reported,  \* whether st.error was called
    m_pc,         \* where the analysis pass of main stands
    uploaded_file,      \* whether a file was uploaded
    option,       \* the selected analysis
    email,        \* the address entered ("" for none)
    send_email_button,  \* whether the send button was pressed
    text,         \* the extracted text
    m_cuts,       \* the segmenter's sentence boundaries in text
    m_clean_cuts, \* the segmenter's sentence boundaries in clean_text(text)
    summary, key_clauses, risks, affected_sections, \* main's results
    answer,       \* the answer shown
    m_reported,   \* the diagnostics reported with st.error
    m_calls,      \* the collaborators called so far, in order
    files         \* the files in the working directory

smVars == <<sm_pc, sm_text, sm_cuts, sm_num, sm_top, sm_summary>>
clVars == <<cl_text, cl_cuts, cl_clauses, cl_risk_phrases, cl_prev_clauses,
            cl_prev_risk_phrases, cl_extract_calls, cl_detect_calls>>
trVars == <<tr_pc, tr_text, tr_updates, tr_affected>>
gqVars == <<gq_pc, gq_response, gq_answer, gq_reported>>
mVars == <<m_pc, uploaded_file, option, email, send_email_button, text, m_cuts,
           m_clean_cuts, summary, key_clauses, risks, affected_sections, answer,
           m_reported, m_calls, files>>
vars == <<smVars, clVars, trVars, gqVars, mVars>>

\* A component that is not exercised.
SmIdle ==
    /\ sm_pc = "idle" /\ sm_text = <<>> /\ sm_cuts = {} /\ sm_num = 0
    /\ sm_top = <<>> /\ sm_summary = <<>>
ClIdle ==
    /\ cl_text = <<>> /\ cl_cuts = {} /\ cl_clauses = <<>> /\ cl_risk_phrases = <<>>
    /\ cl_prev_clauses = <<>> /\ cl_prev_risk_phrases = <<>>
    /\ cl_extract_calls = 0 /\ cl_detect_calls = 0
TrIdle ==
    /\ tr_pc = "idle" /\ tr_text = <<>> /\ tr_updates = FeedOther("list", FALSE)
    /\ tr_affected = <<>>
GqIdle ==
    /\ gq_pc = "idle" /\ gq_response = TransportError /\ gq_answer = <<>>
    /\ gq_reported = FALSE

MIdle ==
    /\ m_pc = "idle" /\ uploaded_file = FALSE /\ option = "All" /\ email = ""
    /\ send_email_button = FALSE /\ text = <<>> /\ m_cuts = {} /\ m_clean_cuts = {}
    /\ summary = <<>> /\ key_clauses = <<>> /\ risks = <<>>
    /\ affected_sections = <<>> /\ answer = <<>> /\ m_reported = {}
    /\ m_calls = <<>> /\ files = {}

\* -------------------------------------------------------------- summarizer
Pieces == {<<"a">>, <<"b">>, <<"B">>, <<"t", "e", "n">>, <<"1">>, <<".">>, <<" ">>}
\* The texts built from at most n pieces.
SmTexts(n) == {Concat(p) : p \in SeqsUpTo(Pieces, n)}

SmInit ==
    /\ sm_pc = "input"
    /\ sm_text \in SmTexts(MaxPieces)
    /\ sm_cuts \in Segmentations(Len(Chunks(clean_text(sm_text))))
    /\ sm_num \in 0..MaxNum
    /\ sm_top = <<>>
    /\ sm_summary = <<>>

Summarize ==
    /\ sm_pc = "input"
    /\ sm_top' = top_sentences(sm_text, sm_cuts, sm_num)
    /\ sm_summary' = summarize_text(sm_text, sm_cuts, sm_num)
    /\ sm_pc' = "done"
    /\ UNCHANGED <<sm_text, sm_cuts, sm_num>>
    /\ UNCHANGED <<clVars, trVars, gqVars, mVars>>

InitSummarize == SmInit /\ ClIdle /\ TrIdle /\ GqIdle /\ MIdle
NextSummarize == Summarize
SpecSummarize == InitSummarize /\ [][NextSummarize]_vars

\* -------------------------------------------------------------- classifier
ClWords == {<<"s", "h", "a", "l", "l">>, <<"M", "U", "S", "T">>,
            <<"i", "n", "d", "e", "m", "n", "i", "f", "y">>,
            <<"l", "i", "a", "b", "l", "e">>, <<"f", "o", "r">>,
            <<"u", "n", "l", "e", "s", "s">>}
\* The texts of at most n words, a space between two words.
ClTexts(n) == {Join(w, <<" ">>) : w \in SeqsUpTo(ClWords, n)}

ClInit ==
    /\ cl_text \in ClTexts(MaxWords)
    /\ cl_cuts \in Segmentations(Len(Chunks(cl_text)))
    /\ cl_clauses = <<>> /\ cl_risk_phrases = <<>>
    /\ cl_prev_clauses = <<>> /\ cl_prev_risk_phrases = <<>>
    /\ cl_extract_calls = 0 /\ cl_detect_calls = 0

ExtractKeyClauses ==
    /\ cl_prev_clauses' = cl_clauses
    /\ cl_clauses' = extract_key_clauses(cl_text, cl_cuts)
    /\ cl_extract_calls' = IF cl_extract_calls = 0 THEN 1 ELSE 2
    /\ UNCHANGED <<cl_text, cl_cuts, cl_risk_phrases, cl_prev_risk_phrases,
                   cl_detect_calls>>
    /\ UNCHANGED <<smVars, trVars, gqVars, mVars>>

DetectHiddenRisks ==
    /\ cl_prev_risk_phrases' = cl_risk_phrases
    /\ cl_risk_phrases' = detect_hidden_risks(cl_text, cl_cuts)
    /\ cl_detect_calls' = IF cl_detect_calls = 0 THEN 1 ELSE 2
    /\ UNCHANGED <<cl_text, cl_cuts, cl_clauses, cl_prev_clauses,
                   cl_extract_calls>>
    /\ UNCHANGED <<smVars, trVars, gqVars, mVars>>

InitClassify == ClInit /\ SmIdle /\ TrIdle /\ GqIdle /\ MIdle
NextClassify == ExtractKeyClauses \/ DetectHiddenRisks
SpecClassify == InitClassify /\ [][NextClassify]_vars

\* -------------------------------------------------------------- correlator
TrTexts == {<<>>, <<"b">>, <<"4", " ", "b">>, <<"B", "4">>}
TrLabels == {<<>>, <<"4">>, <<"B">>}
TrUpdateTexts == {<<"X">>}
TrFields(S) == {Missing, NonStr} \cup {Str(v) : v \in S}
TrRecords ==
    {NonDict} \cup
    {Dict(sec, sub, upd) : sec \in TrFields(TrLabels), sub \in TrFields(TrLabels),
                           upd \in TrFields(TrUpdateTexts)}
\* The feeds of at most n records, and the feed without the key.
TrFeeds(n) ==
    {FeedDict(TRUE, "list", r) : r \in SeqsUpTo(TrRecords, n)}
    \cup {FeedDict(TRUE, "absent", <<>>)}

TrInit ==
    /\ tr_pc = "input"
    /\ tr_text \in TrTexts
    /\ tr_updates \in TrFeeds(MaxFeed)
    /\ tr_affected = <<>>

Track ==
    /\ tr_pc = "input"
    /\ LET r == track_regulatory_updates(tr_text, tr_updates)
       IN  /\ tr_pc' = IF r.raised THEN "raised" ELSE "returned"
           /\ tr_affected' = r.value
    /\ UNCHANGED <<tr_text, tr_updates>>
    /\ UNCHANGED <<smVars, clVars, gqVars, mVars>>

InitTrack == TrInit /\ SmIdle /\ ClIdle /\ GqIdle /\ MIdle
NextTrack == Track
SpecTrack == InitTrack /\ [][NextTrack]_vars

\* ------------------------------------------------------- completion client
GqContents == SeqsUpTo({" ", "\n", "x"}, MaxContent)
GqStatuses == {200, 401, 500}
GqShapes == {"not_json", "no_choices", "empty_choices", "no_message",
             "no_content", "nonstr_content"}
GqResponses ==
    {TransportError}
    \cup {Response(st, "ok", c) : st \in GqStatuses, c \in GqContents}
    \cup {Response(st, sh, <<>>) : st \in GqStatuses, sh \in GqShapes}

GqInit ==
    /\ gq_pc = "input"
    /\ gq_response \in GqResponses
    /\ gq_answer = <<>>
    /\ gq_reported = FALSE

GetAnswer ==
    /\ gq_pc = "input"
    /\ LET r == get_answer_from_groq_api(gq_response)
       IN  /\ gq_pc' = IF r.kind = "raise" THEN "raised" ELSE "returned"
           /\ gq_answer' = r.value
           /\ gq_reported' = r.reported
    /\ UNCHANGED gq_response
    /\ UNCHANGED <<smVars, clVars, trVars, mVars>>

InitGroq == GqInit /\ SmIdle /\ ClIdle /\ TrIdle /\ MIdle
NextGroq == GetAnswer
SpecGroq == InitGroq /\ [][NextGroq]_vars

\* -------------------------------------------------------------------- main
MainTexts == {<<>>, <<"p", "a", "y">>,
              <<"s", "h", "a", "l", "l", " ", "4", " ", "b", " ", "u", "n", "l", "e", "s", "s">>}
MainFeeds ==
    {FeedOther("list", FALSE), FeedOther("list", TRUE), FeedOther("other", FALSE),
     FeedOther("other", TRUE), FeedDict(FALSE, "absent", <<>>),
     FeedDict(TRUE, "absent", <<>>), FeedDict(TRUE, "other", <<>>),
     FeedDict(TRUE, "list", <<>>),
     FeedDict(TRUE, "list", <<Dict(Str(<<"4">>), Str(<<"B">>), Str(<<"X">>))>>),
     FeedDict(TRUE, "list", <<Dict(Str(<<"4">>), Missing, Missing), NonDict>>),
     FeedDict(TRUE, "list", <<Dict(Str(<<"4">>), Str(<<"B">>), NonStr)>>)}
MainFetchOutcomes ==
    {FetchTransportError, FetchResponse(500, FALSE, FeedOther("list", FALSE)),
     FetchResponse(200, FALSE, FeedOther("list", FALSE))}
    \cup {FetchResponse(200, TRUE, f) : f \in MainFeeds}
MainResponses ==
    {TransportError, Response(500, "ok", <<>>), Response(200, "no_choices", <<>>),
     Response(200, "ok", <<" ", "x", " ">>)}

MInit ==
    /\ m_pc = "start"
    /\ uploaded_file \in BOOLEAN
    /\ option \in Options
    /\ email \in {"", "user@example.com"}
    /\ send_email_button \in BOOLEAN
    /\ text = <<>> /\ m_cuts = {} /\ m_clean_cuts = {}
    /\ summary = <<>> /\ key_clauses = <<>> /\ risks = <<>>
    /\ affected_sections = <<>> /\ answer = <<>>
    /\ m_reported = {} /\ m_calls = <<>> /\ files = {}

mOthers == <<smVars, clVars, trVars, gqVars>>
mInputs == <<uploaded_file, option, email, send_email_button>>
mResults == <<summary, key_clauses, risks, affected_sections, answer>>

\* if uploaded_file: (nothing happens without a file)
NoUpload ==
    /\ m_pc = "start" /\ ~uploaded_file
    /\ m_pc' = "end"
    /\ UNCHANGED <<mInputs, text, m_cuts, m_clean_cuts, mResults, m_reported,
                   m_calls, files, mOthers>>

\* text = extract_text(uploaded_file): returns a text or raises.
ExtractText ==
    /\ m_pc = "start" /\ uploaded_file
    /\ \/ /\ text' \in MainTexts
          /\ m_cuts' \in Segmentations(Len(Chunks(text')))
          /\ m_clean_cuts' \in Segmentations(Len(Chunks(clean_text(text'))))
          /\ m_pc' = "analyse"
       \/ /\ m_pc' = "crashed"
          /\ UNCHANGED <<text, m_cuts, m_clean_cuts>>
    /\ m_calls' = Append(m_calls,
                       Call("extract_text",
                            IF m_pc' = "crashed" THEN "raised" ELSE "returned"))
    /\ UNCHANGED <<mInputs, mResults, m_reported, files, mOthers>>

\* summary, key_clauses, risks = ...; the option's sections are written.
Analyse ==
    /\ m_pc = "analyse"
    /\ summary' = summarize_text(text, m_clean_cuts, DefaultNumSentences)
    /\ key_clauses' = extract_key_clauses(text, m_cuts)
    /\ risks' = detect_hidden_risks(text, m_cuts)
    /\ m_pc' = "regulatory"
    /\ UNCHANGED <<mInputs, text, m_cuts, m_clean_cuts, affected_sections, answer,
                   m_reported, m_calls, files, mOthers>>

\* if option in ["Regulatory Updates", "All"]: fetch, and track if truthy.
RegulatoryUpdates ==
    /\ m_pc = "regulatory"
    /\ IF option \in {"Regulatory Updates", "All"}
       THEN \E outcome \in MainFetchOutcomes :
              LET updates == fetch_regulatory_updates(outcome)
                  r == track_regulatory_updates(text, updates.value)
              IN  /\ m_calls' = Append(m_calls, Call("fetch_regulatory_updates", "returned"))
                  /\ m_reported' = IF updates.reported
                                   THEN m_reported \cup {"fetch_regulatory_updates"}
                                   ELSE m_reported
                  /\ IF ~updates.value.truthy
                     THEN m_pc' = "qa" /\ UNCHANGED affected_sections
                     ELSE IF r.raised
                     THEN m_pc' = "crashed" /\ UNCHANGED affected_sections
                     ELSE m_pc' = "qa" /\ affected_sections' = r.value
       ELSE m_pc' = "qa" /\ UNCHANGED <<affected_sections, m_reported, m_calls>>
    /\ UNCHANGED <<mInputs, text, m_cuts, m_clean_cuts, summary, key_clauses, risks,
                   answer, files, mOthers>>

\* if option == "Question Answering": ask when a question was entered.
QuestionAnswering ==
    /\ m_pc = "qa"
    /\ IF option = "Question Answering"
       THEN \/ UNCHANGED <<answer, m_reported, m_calls>>
            \/ \E response \in MainResponses :
                 LET r == get_answer_from_groq_api(response)
                 IN  /\ m_calls' = Append(m_calls, Call("get_answer_from_groq_api", "returned"))
                     /\ answer' = r.value
                     /\ m_reported' = IF r.reported
                                      THEN m_reported \cup {"get_answer_from_groq_api"}
                                      ELSE m_reported
       ELSE UNCHANGED <<answer, m_reported, m_calls>>
    /\ m_pc' = "visualize"
    /\ UNCHANGED <<mInputs, text, m_cuts, m_clean_cuts, summary, key_clauses, risks,
                   affected_sections, files, mOthers>>

\* if option in ["Visualizations", "All"]: visualize_data(...) draws the
\* charts on the page and leaves main's variables and the files alone.
VisualizeData ==
    /\ m_pc = "visualize"
    /\ m_pc' = "sheets"
    /\ UNCHANGED <<mInputs, text, m_cuts, m_clean_cuts, mResults, m_reported,
                   m_calls, files, mOthers>>

\* update_google_sheets([...]): append_row returns or raises, caught inside.
UpdateGoogleSheets ==
    /\ m_pc = "sheets"
    /\ m_calls' = Append(m_calls, Call("update_google_sheets", "returned"))
    /\ \E ok \in BOOLEAN :
         m_reported' = IF ok THEN m_reported
                       ELSE m_reported \cup {"update_google_sheets"}
    /\ m_pc' = IF send_email_button /\ email # "" THEN "create_pdf" ELSE "end"
    /\ UNCHANGED <<mInputs, text, m_cuts, m_clean_cuts, mResults, files, mOthers>>

\* pdf_filename = create_pdf(...), up to the charts being saved: add_font
\* raises, or the charts are on disk.
CreatePdfSaveCharts ==
    /\ m_pc = "create_pdf"
    /\ \/ /\ m_pc' = "crashed"
          /\ m_calls' = Append(m_calls, Call("create_pdf", "raised"))
          /\ UNCHANGED files
       \/ /\ m_pc' = "create_pdf_images"
          /\ files' = files \cup visualization_files(summary, key_clauses, risks)
          /\ UNCHANGED m_calls
    /\ UNCHANGED <<mInputs, text, m_cuts, m_clean_cuts, mResults, m_reported,
                   mOthers>>

\* create_pdf's loop over visualization_files: pdf.image raises on the first
\* chart, or every chart is added to the report and removed.
CreatePdfAddImages ==
    /\ m_pc = "create_pdf_images"
    /\ LET charts == visualization_files(summary, key_clauses, risks)
       IN  \/ /\ charts # {}
              /\ m_pc' = "crashed"
              /\ m_calls' = Append(m_calls, Call("create_pdf", "raised"))
              /\ UNCHANGED files
           \/ /\ m_pc' = "create_pdf_output"
              /\ files' = RemoveCharts(files, charts)
              /\ UNCHANGED m_calls
    /\ UNCHANGED <<mInputs, text, m_cuts, m_clean_cuts, mResults, m_reported,
                   mOthers>>

\* pdf.output(filename); return filename: raises, or the report is on disk.
CreatePdfOutput ==
    /\ m_pc = "create_pdf_output"
    /\ \/ /\ m_pc' = "crashed"
          /\ m_calls' = Append(m_calls, Call("create_pdf", "raised"))
          /\ UNCHANGED files
       \/ /\ m_pc' = "validate"
          /\ files' = files \cup {ReportPdf}
          /\ m_calls' = Append(m_calls, Call("create_pdf", "returned"))
    /\ UNCHANGED <<mInputs, text, m_cuts, m_clean_cuts, mResults, m_reported,
                   mOthers>>

\* try: validate_email(email): returns, or raises EmailNotValidError.
ValidateEmail ==
    /\ m_pc = "validate"
    /\ \/ m_pc' = "send" /\ UNCHANGED m_reported
       \/ /\ m_pc' = AfterRejected
          /\ m_reported' = m_reported \cup {"Invalid email address."}
    /\ m_calls' = Append(m_calls,
                       Call("validate_email",
                            IF m_pc' = "send" THEN "returned" ELSE "raised"))
    /\ UNCHANGED <<mInputs, text, m_cuts, m_clean_cuts, mResults, files, mOthers>>

\* send_email(email, ..., pdf_filename): every failure is caught inside.
SendEmail ==
    /\ m_pc = "send"
    /\ m_calls' = Append(m_calls, Call("send_email", "returned"))
    /\ \E outcome \in {"sent", "SMTPAuthenticationError", "error"} :
         m_reported' = IF outcome = "sent" THEN m_reported
                       ELSE m_reported \cup {"send_email"}
    /\ m_pc' = "finally"
    /\ UNCHANGED <<mInputs, text, m_cuts, m_clean_cuts, mResults, files, mOthers>>

\* finally: os.remove('./analysis_report.pdf')
Finally ==
    /\ m_pc = "finally"
    /\ IF ReportPdf \in files
       THEN files' = files \ {ReportPdf} /\ m_pc' = "end"
       ELSE UNCHANGED files /\ m_pc' = "crashed"
    /\ m_calls' = Append(m_calls,
                       Call("os.remove",
                            IF m_pc' = "crashed" THEN "raised" ELSE "returned"))
    /\ UNCHANGED <<mInputs, text, m_cuts, m_clean_cuts, mResults, m_reported,
                   mOthers>>

InitMain == MInit /\ SmIdle /\ ClIdle /\ TrIdle /\ GqIdle
NextMain ==
    \/ NoUpload \/ ExtractText \/ Analyse \/ RegulatoryUpdates
    \/ QuestionAnswering \/ VisualizeData \/ UpdateGoogleSheets
    \/ CreatePdfSaveCharts \/ CreatePdfAddImages \/ CreatePdfOutput
    \/ ValidateEmail \/ SendEmail \/ Finally
SpecMain == InitMain /\ [][NextMain]_vars

\* ------------------------------------------------------------------ claims
\* The sentences of the summarizer's document, by position.
SmSents == Sents(clean_text(sm_text), sm_cuts)
IsInjective(q) == \A i, j \in 1..Len(q) : q[i] = q[j] => i = j

\* C1: summarize_text(text, k) returns at most k of the document's sentences,
\* and when the document has fewer than k sentences it returns all of them in
\* their document order.
C1_AtMostKAllInOrder ==
    sm_pc = "done" =>
        /\ Len(sm_top) <= sm_num
        /\ IsInjective(sm_top)
        /\ \A i \in 1..Len(sm_top) : sm_top[i] \in 1..Len(SmSents)
        /\ Len(SmSents) < sm_num => sm_top = [i \in 1..Len(SmSents) |-> i]

\* C2: when the document has more than k sentences, the selected sentences
\* are joined in document order: of two selected sentences, the earlier in
\* the document is the earlier in the summary.
C2_SelectedInDocumentOrder ==
    (sm_pc = "done" /\ Len(SmSents) > sm_num) =>
        \A i, j \in 1..Len(sm_top) : i < j => sm_top[i] < sm_top[j]

\* C3: a text that is empty, whitespace-only or empty after clean_text yields
\* the empty string as its summary.
C3_EmptyInputEmptySummary ==
    (sm_pc = "done" /\ clean_text(sm_text) = <<>>) => sm_summary = <<>>

\* The stripped texts of all sentences of the classifier's document, in order.
ClSentTexts ==
    LET sents == Sents(cl_text, cl_cuts)
    IN  [i \in 1..Len(sents) |-> Strip(SentRaw(cl_text, sents, i))]
FirstIndex(q, x) == CHOOSE i \in 1..Len(q) : q[i] = x /\ \A j \in 1..(i - 1) : q[j] # x
Occurs(q, x) == \E i \in 1..Len(q) : q[i] = x
\* r holds no text twice, only texts of q, and these in the order of their
\* first occurrence in q.
DistinctInFirstOccurrenceOrder(r, q) ==
    /\ IsInjective(r)
    /\ \A k \in 1..Len(r) : Occurs(q, r[k])
    /\ \A k, l \in 1..Len(r) : k < l => FirstIndex(q, r[k]) < FirstIndex(q, r[l])

\* C4: the results of extract_key_clauses and detect_hidden_risks hold no text
\* twice, list the sentences in the order of their first occurrence in the
\* document, and are the same when the function is applied to the document again.
C4_DistinctOrderedRepeatable ==
    LET q == ClSentTexts
    IN  /\ DistinctInFirstOccurrenceOrder(cl_clauses, q)
        /\ DistinctInFirstOccurrenceOrder(cl_risk_phrases, q)
        /\ cl_extract_calls >= 2 => cl_prev_clauses = cl_clauses
        /\ cl_detect_calls >= 2 => cl_prev_risk_phrases = cl_risk_phrases

\* C4's case: three sentences with an obligation phrase each, the first and
\* the last of the same text, both functions applied twice.
C4_Witness ==
    /\ cl_extract_calls >= 2 /\ cl_detect_calls >= 2
    /\ Len(ClSentTexts) = 3
    /\ ClSentTexts[1] = ClSentTexts[3] /\ ClSentTexts[1] # ClSentTexts[2]
    /\ cl_clauses = <<ClSentTexts[1], ClSentTexts[2]>>

\* The clause-indicator lexicon the specification requires.
RequiredClauseIndicators ==
    <<<<"s", "h", "a", "l", "l">>,
      <<"m", "u", "s", "t">>,
      <<"r", "e", "s", "p", "o", "n", "s", "i", "b", "l", "e", " ", "f", "o", "r">>,
      <<"l", "i", "a", "b", "l", "e", " ", "f", "o", "r">>,
      <<"w", "a", "r", "r", "a", "n", "t">>,
      <<"g", "u", "a", "r", "a", "n", "t", "e", "e">>,
      <<"i", "n", "d", "e", "m", "n", "i", "f", "y">>,
      <<"b", "r", "e", "a", "c", "h", " ", "o", "f">>,
      <<"o", "b", "l", "i", "g", "e", "d", " ", "t", "o">>,
      <<"r", "e", "q", "u", "i", "r", "e", "d", " ", "t", "o">>>>

\* C5: a sentence is returned by extract_key_clauses exactly when its
\* lowercased text contains a phrase of the required clause-indicator lexicon.
C5_ReturnedIffRequiredIndicator ==
    cl_extract_calls >= 1 =>
        \A i \in 1..Len(ClSentTexts) :
            Occurs(cl_clauses, ClSentTexts[i])
                <=> MatchesAny(RequiredClauseIndicators, ClSentTexts[i])

\* A record's label: the field's text, the empty string when it is absent.
LabelOf(field) == IF field.kind = "str" THEN field.val ELSE <<>>
\* Both labels of the record occur in the text, compared case-insensitively.
Qualifies(txt, rec) ==
    /\ rec.isdict
    /\ rec.section.kind # "nonstr" /\ rec.sub_section.kind # "nonstr"
    /\ IsSubstring(Lower(LabelOf(rec.section)), Lower(txt))
    /\ IsSubstring(Lower(LabelOf(rec.sub_section)), Lower(txt))
QualifyingRecords(txt, recs) == SelectSeq(recs, LAMBDA rec : Qualifies(txt, rec))

\* C6: track_regulatory_updates returns exactly one entry for each record of
\* the feed whose section and sub-section labels both occur in the text, case
\* ignored, no other entry, and the entries in the order of the feed.
C6_ExactlyQualifyingRecordsInOrder ==
    tr_pc \in {"returned", "raised"} =>
        LET q == QualifyingRecords(tr_text, tr_updates.records)
        IN  /\ tr_pc = "returned"
            /\ Len(tr_affected) = Len(q)
            /\ \A k \in 1..Len(q) :
                  tr_affected[k] = FormatAffected(LabelOf(q[k].section),
                                                  LabelOf(q[k].sub_section),
                                                  Lower(LabelOf(q[k].update)))

\* C7: track_regulatory_updates never raises on a malformed record (a missing
\* field, a value that is no string, an entry that is no dict).
C7_NeverRaisesOnMalformedRecord == tr_pc # "raised"

\* t is s without its leading and trailing whitespace.
IsTrimOf(t, s) ==
    /\ t # <<>> => t[1] \notin SpaceChars /\ t[Len(t)] \notin SpaceChars
    /\ \E i \in 0..Len(s) :
          /\ i + Len(t) <= Len(s)
          /\ SubSeq(s, i + 1, i + Len(t)) = t
          /\ \A j \in (1..i) \cup ((i + Len(t) + 1)..Len(s)) : s[j] \in SpaceChars
WellFormed(response) ==
    /\ ~response.transport_error
    /\ response.status_code = 200
    /\ response.shape = "ok"

\* C8: get_answer_from_groq_api never raises; on a non-200 status, a transport
\* error or a 200 body without choices[0].message.content it returns "" and
\* reports the failure; on a well-formed 200 response it returns the content
\* without its surrounding whitespace.
C8_FailuresYieldEmptyAnswer ==
    gq_pc \in {"returned", "raised"} =>
        /\ gq_pc = "returned"
        /\ IF WellFormed(gq_response)
           THEN IsTrimOf(gq_answer, gq_response.content) /\ ~gq_reported
           ELSE gq_answer = <<>> /\ gq_reported

\* C8's case: a 200 response whose JSON body has no content under
\* choices[0].message was answered with "" and a report.
C8_Witness ==
    /\ gq_pc = "returned"
    /\ gq_response.status_code = 200 /\ gq_response.shape = "no_content"
    /\ gq_answer = <<>> /\ gq_reported

\* C9: in an analysis pass of main no collaborator failure leaves main as an
\* unhandled exception, and a failed regulatory fetch leaves summary, key
\* clauses and risks computed and affected_sections empty.
C9_NoFailurePropagates ==
    /\ m_pc # "crashed"
    /\ (m_pc = "end" /\ "fetch_regulatory_updates" \in m_reported) =>
          /\ affected_sections = <<>>
          /\ summary = summarize_text(text, m_clean_cuts, DefaultNumSentences)
          /\ key_clauses = extract_key_clauses(text, m_cuts)
          /\ risks = detect_hidden_risks(text, m_cuts)

Called(name, result) ==
    \E i \in 1..Len(m_calls) : m_calls[i] = Call(name, result)

\* C10: send_email is called only after validate_email has accepted the
\* address and create_pdf has returned the report; and once create_pdf has
\* returned, the pass ends with analysis_report.pdf and the chart images removed.
C10_SendAfterValidateAndCleanup ==
    /\ \A i \in 1..Len(m_calls) :
          m_calls[i].call = "send_email" =>
              /\ \E j \in 1..(i - 1) : m_calls[j] = Call("validate_email", "returned")
              /\ \E j \in 1..(i - 1) : m_calls[j] = Call("create_pdf", "returned")
              /\ ~\E j \in 1..(i - 1) : m_calls[j] = Call("validate_email", "raised")
    /\ (m_pc \in {"end", "crashed"} /\ Called("create_pdf", "returned")) =>
          files \cap {ReportPdf, ClausesChart, WordFreqChart} = {}

\* C10's case: the address was rejected after create_pdf had written the
\* report and saved both charts, and the pass has ended.
C10_Witness ==
    /\ m_pc = "end"
    /\ Called("create_pdf", "returned")
    /\ Called("validate_email", "raised")
    /\ key_clauses # <<>> /\ risks # <<>>
    /\ ReportPdf \notin files
====
